---- MODULE Spec2Model ----
(***************************************************************************)
(* Session-addressed request router and transport-session registry of the  *)
(* HeroUI MCP server: McpRouteHandlers (src/http/routes/mcp-routes.ts),    *)
(* SessionTransportManager (src/transport/session-manager.ts), the request *)
(* utilities (validateMcpRequest and friends), handleError / asyncHandler  *)
(* and HeroUiMcpApplication.start / stop; and, in a second specification,  *)
(* the startup of the application (the documentation mirror of GitCache is *)
(* initialised before the server listens) and the signal handlers of       *)
(* index.ts.                                                               *)
(*                                                                         *)
(* Node runs the handlers cooperatively: a handler runs without            *)
(* interruption up to its next await.  Every action below is one such      *)
(* uninterrupted stretch of code.                                          *)
(***************************************************************************)
EXTENDS Integers, Sequences, FiniteSets, Bags, TLC

\* ---------------------------------------------------------------- bounds
\* Number of distinct values the session id generator can produce.
MaxIds == 2
\* Number of protocol endpoints (transports) that can be constructed in a run:
\* one for every id the generator can produce.
MaxEps == MaxIds
\* Number of requests that can be in flight (suspended at an await) at once.
MaxReq == 2
\* The clock stops advancing at this reading.
MaxTime == 2
\* Constructor argument of SessionTransportManager, in clock ticks.
SessionTimeoutMs == 1
\* Largest value of the configuration's gitMaxRetries.
MaxRetries == 2
\* Attempts of one git command are counted up to this number.
MaxAttempt == MaxRetries + 1
\* Number of signals the process can receive while it shuts down.
MaxSignals == 2

\* ------------------------------------------------------- program constants
\* ErrorCodes.SESSION_ERROR, ErrorCodes.INTERNAL_ERROR
SESSION_ERROR == -32001
INTERNAL_ERROR == -32603

\* ------------------------------------------------------------------ values
Ids == 1 .. MaxIds
Eps == 1 .. MaxEps
NoEp == 0

\* A string is a sequence of characters.  SP is a whitespace character; every
\* other character is an id token, so the string <<i>> is the UUID number i.
SP == 0
Str(i) == <<i>>
\* The empty string; an endpoint's sessionId before the handshake (undefined).
NoSid == <<>>

\* The mcp-session-id header: absent (undefined) or a string.
Absent == [present |-> FALSE, val |-> <<>>]
Hdr(s) == [present |-> TRUE, val |-> s]
\* Header values a client may send: none, the empty string, whitespace only,
\* an id with leading whitespace, and every id.
Headers ==
  {Absent, Hdr(<<>>), Hdr(<<SP>>), Hdr(<<SP, 1>>)} \cup {Hdr(Str(i)) : i \in Ids}

VARIABLES
  transports,      \* SessionTransportManager.transports: Map<string, SessionTransport>
  cleanupInterval, \* SessionTransportManager.cleanupInterval is armed (non-null)
  endpoints,       \* every StreamableHTTPServerTransport constructed so far
  req,             \* the route handler invocations suspended at an await (a bag)
  out,             \* the response completed by the last step (NoResponse: none)
  server,          \* HeroUiMcpApplication.server: "none", "listening",
                   \* "closing" (close called), "closed" (close's callback ran)
  now,             \* new Date(): the clock
  config,          \* CacheConfig: gitMaxRetries, validateGitOnStartup
  cacheInitialized,\* HeroUiMcpApplication.cacheInitialized
  startPc,         \* start(): "idle", or "cache" while it awaits initializeCache()
  git,             \* GitCache.initializeCache(): where it is suspended
  result,          \* the last GitCacheOperationResult initializeCache returned
  sig,             \* for every signal received, in order, the promise of the
                   \* app.stop() its handler called: "pending", "resolved",
                   \* "rejected"
  exitCode         \* the code process.exit was called with (NotExited: running)

\* The router and the registry; the application's startup and the process.
sess == <<transports, endpoints, req, out, now>>
proc == <<config, cacheInitialized, startPc, git, result, sig, exitCode>>
vars == <<transports, cleanupInterval, endpoints, req, out, server, now,
          config, cacheInitialized, startPc, git, result, sig, exitCode>>

\* ------------------------------------------------------- request utilities
RECURSIVE TrimStart(_)
TrimStart(s) ==
  IF s = <<>> THEN s
  ELSE IF Head(s) = SP THEN TrimStart(Tail(s)) ELSE s

RECURSIVE TrimEnd(_)
TrimEnd(s) ==
  IF s = <<>> THEN s
  ELSE IF s[Len(s)] = SP THEN TrimEnd(SubSeq(s, 1, Len(s) - 1)) ELSE s

\* String.prototype.trim
Trim(s) == TrimEnd(TrimStart(s))

\* getSessionId: the raw header, untrimmed
getSessionId(h) == h

\* JavaScript truthiness of string | undefined: a non-empty string
Truthy(h) == h.present /\ h.val # <<>>

\* hasSessionId: sessionId !== undefined && sessionId.trim().length > 0
hasSessionId(h) == h.present /\ Len(Trim(h.val)) > 0

\* Faulty variant: any request without a session id counts as an initialize
\* request, whatever its body.
isNewInitializeRequestAnyBody(h, isInit) == ~hasSessionId(h)

\* isNewInitializeRequest: !hasSessionId(req) && isInitializeRequest(req.body)
isNewInitializeRequest(h, isInit) == ~hasSessionId(h) /\ isInit

\* Faulty variant: a request is a continuation only when its id is registered.
isSessionContinuationKnown(h) == hasSessionId(h) /\ h.val \in DOMAIN transports

\* isSessionContinuation
isSessionContinuation(h) == hasSessionId(h)

\* validateMcpRequest throws a SessionError when the request is neither
validateMcpRequestThrows(h, isInit) ==
  ~isNewInitializeRequest(h, isInit) /\ ~isSessionContinuation(h)

\* ----------------------------------------------------------- error utilities
\* The response handleError writes for each class of error.
\*   "SessionError"  -> 400, SESSION_ERROR
\*   "Error"         -> 500, INTERNAL_ERROR
handleErrorStatus(class) == IF class = "SessionError" THEN 400 ELSE 500
handleErrorCode(class) ==
  IF class = "SessionError" THEN SESSION_ERROR ELSE INTERNAL_ERROR

NoResponse ==
  [status |-> 0, code |-> 0, msg |-> "none", structured |-> FALSE,
   escaped |-> FALSE]

\* handleError(error, res) on a response whose headers are not sent yet:
\* res.status(..).json(createErrorResponse(..))
ErrorResponse(class, msg) ==
  [status |-> handleErrorStatus(class), code |-> handleErrorCode(class),
   msg |-> msg, structured |-> TRUE, escaped |-> FALSE]

\* The endpoint wrote the response itself.
TransportResponse ==
  [status |-> 200, code |-> 0, msg |-> "transport", structured |-> TRUE,
   escaped |-> FALSE]

\* handleError in the catch block after the endpoint has begun to write:
\* res.status(500).json(..) throws (headers already sent), the rejection leaves
\* the handler and asyncHandler only logs it.
BrokenResponse ==
  [status |-> 200, code |-> 0, msg |-> "transport", structured |-> FALSE,
   escaped |-> TRUE]

\* --------------------------------------------------- SessionTransportManager
\* Faulty variant: a lookup that also answers from the endpoints themselves, so
\* it finds an endpoint whose entry has been removed.
getTransportStale(t, sid) ==
  IF sid \in DOMAIN t THEN t[sid].transport
  ELSE IF \E e \in Eps : endpoints[e].sid = sid /\ sid # NoSid
    THEN CHOOSE e \in Eps : endpoints[e].sid = sid
  ELSE NoEp

\* getTransport: the endpoint returned (NoEp for undefined)
getTransport(t, sid) == IF sid \in DOMAIN t THEN t[sid].transport ELSE NoEp

\* Faulty variant: the lookup creates an entry for an id it does not find.
getTransportUpsert(t, sid, time) ==
  [s \in DOMAIN t \cup {sid} |->
    IF s \in DOMAIN t
      THEN [t[s] EXCEPT !.lastActivity = time]
      ELSE [transport |-> NoEp, lastActivity |-> time]]

\* Faulty variant: a lookup that enforces the timeout itself and does not
\* refresh a session already idle for longer.
getTransportTouchFresh(t, sid, time) ==
  IF sid \in DOMAIN t /\ time - t[sid].lastActivity <= SessionTimeoutMs
    THEN [t EXCEPT ![sid].lastActivity = time]
    ELSE t

\* getTransport: the map after the call (lastActivity refreshed on a hit)
getTransportTouch(t, sid, time) ==
  IF sid \in DOMAIN t THEN [t EXCEPT ![sid].lastActivity = time] ELSE t

\* setTransport: this.transports.set(sessionId, sessionTransport).  createdAt is
\* written here and read nowhere; the entry keeps the endpoint and lastActivity.
setTransport(t, sid, e, time) ==
  [s \in DOMAIN t \cup {sid} |->
    IF s = sid
      THEN [transport |-> e, lastActivity |-> time]
      ELSE t[s]]

\* Faulty variant: removal by position, which takes the last entry when the id
\* is not found (splice(indexOf(id), 1) with indexOf = -1).
removeTransportSplice(t, sid) ==
  IF sid \in DOMAIN t THEN [s \in DOMAIN t \ {sid} |-> t[s]]
  ELSE IF DOMAIN t = {} THEN t
  ELSE LET last == CHOOSE u \in DOMAIN t : \A v \in DOMAIN t : v[1] <= u[1]
       IN [s \in DOMAIN t \ {last} |-> t[s]]

\* Faulty variant: the entry is left in the map.
removeTransportKeep(t, sid) == t

\* removeTransport: this.transports.delete(sessionId)
removeTransport(t, sid) == [s \in DOMAIN t \ {sid} |-> t[s]]

\* getSessionCount
getSessionCount(t) == Cardinality(DOMAIN t)

\* Faulty variant: a session idle for exactly the timeout is expired too.
expiredSessionsInclusive(t, time) ==
  {s \in DOMAIN t : time - t[s].lastActivity >= SessionTimeoutMs}

\* cleanup, first loop: the sessions idle for longer than the timeout
expiredSessions(t, time) ==
  {s \in DOMAIN t : time - t[s].lastActivity > SessionTimeoutMs}

\* Faulty variant: the sweep stops after the first expired session it removes.
cleanupFirstOnly(t, time) ==
  IF expiredSessions(t, time) = {} THEN t
  ELSE LET first == CHOOSE u \in expiredSessions(t, time) :
                      \A v \in expiredSessions(t, time) : u[1] <= v[1]
       IN [s \in DOMAIN t \ {first} |-> t[s]]

\* cleanup, second loop: removeTransport of every expired session
cleanup(t, time) == [s \in DOMAIN t \ expiredSessions(t, time) |-> t[s]]

\* Faulty variant: registration installs no close callback of its own, and the
\* one it displaced is lost.
oncloseUnregistered(t, ep) ==
  IF ep.onclose = "router" /\ ep.sid # NoSid THEN [s \in DOMAIN t \ {ep.sid} |-> t[s]]
  ELSE t

\* The close callback installed on an endpoint, run when it closes.
\*   "router":   createNewTransport's callback (if (transport.sessionId) remove)
\*   "registry": setTransport's callback (remove the id captured at registration,
\*               which is the id the endpoint reports)
onclose(t, ep) ==
  IF ep.onclose = "registry" THEN removeTransport(t, ep.sid)
  ELSE IF ep.onclose = "router" /\ ep.sid # NoSid THEN removeTransport(t, ep.sid)
  ELSE t

\* -------------------------------------------------------------------- state
NoSessions == [s \in {} |-> 0]
\* A handler invocation keeps its locals across an await: the method it serves,
\* sessionId (NoSid when the request carried none) and transport.  pc is the
\* await it is suspended at: "connecting" (server.connect) or "forward"
\* (transport.handleRequest).
Suspended(pc, method, sessionId, ep) ==
  [pc |-> pc, method |-> method, sessionId |-> sessionId, ep |-> ep]
Await(x) == req (+) SetToBag({x})
Resume(x) == req (-) SetToBag({x})
InFlight == BagToSet(req)
UnusedEp == [st |-> "unused", sid |-> NoSid, onclose |-> "none"]

\* The ids the generator has handed out.
generated == {endpoints[e].sid : e \in Eps} \ {NoSid}

\* Faulty variant: a generator that repeats itself.
randomUUIDRepeating(e) == {Str(1)}

\* sessionIdGenerator: () => randomUUID(), drawn by endpoint e at its handshake:
\* a value no other draw produces.  The ids are opaque and interchangeable, so
\* the one endpoint number e draws is the string <<e>>.
randomUUID(e) == {Str(e)}

\* The process is running: process.exit has not been called.
NotExited == -1
\* No initializeCache has returned yet.
NoResult == "none"
\* GitCache.initializeCache is not running.
GitIdle == [pc |-> "idle", left |-> 0, attempt |-> 0]
\* CacheConfig: gitMaxRetries is any number, validateGitOnStartup any boolean.
Configs == [gitMaxRetries : 0 .. MaxRetries, validateGitOnStartup : BOOLEAN]

\* new HeroUiMcpApplication(): the constructor makes the registry, which arms
\* its timer, and the GitCache; no server exists, the mirror is not initialised.
Constructed(c) ==
  /\ transports = NoSessions
  /\ cleanupInterval = TRUE
  /\ endpoints = [e \in Eps |-> UnusedEp]
  /\ req = EmptyBag
  /\ out = NoResponse
  /\ server = "none"
  /\ now = 0
  /\ config = c
  /\ cacheInitialized = FALSE
  /\ startPc = "idle"
  /\ git = GitIdle
  /\ result = NoResult
  /\ sig = <<>>
  /\ exitCode = NotExited

\* The router and the registry do not read the cache configuration.
Init == Constructed([gitMaxRetries |-> MaxRetries, validateGitOnStartup |-> TRUE])

\* The endpoint a constructor makes; whether one more request can be in flight.
FreeEp == CHOOSE e \in Eps : endpoints[e].st = "unused" /\ \A f \in Eps : endpoints[f].st = "unused" => e <= f
HasFreeSlot == BagCardinality(req) < MaxReq
HasFreeEp == \E e \in Eps : endpoints[e].st = "unused"

\* Faulty variant: the endpoint is registered as soon as it is constructed.
createNewTransportEager(t, e) == setTransport(t, Str(e), e, now)

\* createNewTransport up to await server.connect: what it does to the registry.
\* It constructs the endpoint and installs callbacks; setTransport is called by
\* onsessioninitialized only, so the registry is as before.
createNewTransport(t, e) == t

\* How await transport.handleRequest(...) ends: it returns, it throws before
\* the endpoint wrote anything, or it throws after the endpoint sent headers.
Outcomes == {"return", "throwEarly", "throwLate"}

\* The response the client is left with for each outcome: the endpoint's own;
\* the catch block's handleError; or, headers being sent already, a response
\* handleError cannot replace.
ForwardResponse(outcome) ==
  IF outcome = "return" THEN TransportResponse
  ELSE IF outcome = "throwEarly" THEN ErrorResponse("Error", "internal")
  ELSE BrokenResponse

\* ------------------------------------------------------ McpRouteHandlers
\* handlePost up to its first await (or to its return).
\* out is the response just written; the request is taken up once the client
\* has it (ResponseRead), which reaches the same states as taking it up at once.
handlePost(h, isInit) ==
  /\ server = "listening"
  /\ out = NoResponse
  /\ HasFreeSlot
  /\ IF validateMcpRequestThrows(h, isInit)
       THEN \* validateMcpRequest throws; the catch block answers
            /\ out' = ErrorResponse("SessionError", "Bad Request: No valid session ID")
            /\ UNCHANGED <<transports, endpoints, req>>
     ELSE IF isSessionContinuation(h)
       THEN \* if (sessionId)
            /\ transports' = getTransportTouch(transports, h.val, now)
            /\ IF getTransport(transports, h.val) = NoEp
                 THEN \* getTransport misses
                      out' = ErrorResponse("Error", "Session not found")
                 ELSE \* getTransport hits: await transport.handleRequest.
                      \* Nothing but the catch block follows the await, and
                      \* neither reads the registry, so the forwarding is
                      \* taken to its end in this step.
                      \E outcome \in Outcomes : out' = ForwardResponse(outcome)
            /\ UNCHANGED <<endpoints, req>>
     ELSE \* else if (isInitialize): createNewTransport up to await
          \* server.connect.  The final else is never reached: a request that
          \* passed validateMcpRequest is one or the other.
          /\ isNewInitializeRequest(h, isInit)
          /\ HasFreeEp
          /\ endpoints' = [endpoints EXCEPT ![FreeEp] =
                            [st |-> "open", sid |-> NoSid, onclose |-> "router"]]
          /\ req' = Await(Suspended("connecting", "POST", NoSid, FreeEp))
          /\ transports' = createNewTransport(transports, FreeEp)
          /\ out' = NoResponse
  /\ UNCHANGED <<cleanupInterval, server, now>>

\* handleGet and handleDelete up to the first await (or to the return).
handleSession(method, h) ==
  /\ server = "listening"
  /\ out = NoResponse
  /\ HasFreeSlot
  /\ IF ~Truthy(getSessionId(h))
       THEN \* if (!sessionId)
            /\ out' = ErrorResponse("Error", "Missing session ID")
            /\ UNCHANGED <<transports, req>>
     ELSE /\ transports' = getTransportTouch(transports, h.val, now)
          /\ IF getTransport(transports, h.val) = NoEp
               THEN \* if (!transport)
                    /\ out' = ErrorResponse("Error", "Session not found")
                    /\ UNCHANGED req
             ELSE IF method = "GET"
               THEN \* handleGet: await transport.handleRequest, taken to its
                    \* end as in handlePost
                    /\ \E outcome \in Outcomes : out' = ForwardResponse(outcome)
                    /\ UNCHANGED req
             ELSE \* handleDelete: suspended at await transport.handleRequest
                  /\ req' = Await(Suspended("forward", method, h.val,
                                             getTransport(transports, h.val)))
                  /\ out' = NoResponse
  /\ UNCHANGED <<endpoints, cleanupInterval, server, now>>

\* res.json(...) / the endpoint's own write has reached the client.
ResponseRead ==
  /\ out # NoResponse
  /\ out' = NoResponse
  /\ UNCHANGED <<transports, cleanupInterval, endpoints, req, server, now>>

PostRequest == \E h \in Headers, isInit \in BOOLEAN : handlePost(h, isInit)
GetRequest == \E h \in Headers : handleSession("GET", h)
DeleteRequest == \E h \in Headers : handleSession("DELETE", h)

\* The endpoint closes itself: it is marked closed and its close callback runs.
closeEndpoint(eps, e) == [eps EXCEPT ![e].st = "closed"]

\* await server.connect(transport) resolves; createNewTransport returns and
\* handlePost calls transport.handleRequest.
ConnectDone(r) ==
  /\ r.pc = "connecting"
  /\ req' = Resume(r) (+) SetToBag({[r EXCEPT !.pc = "forward"]})
  /\ out' = NoResponse
  /\ UNCHANGED <<transports, cleanupInterval, endpoints, server, now>>

\* createServer or server.connect throws: handlePost's catch block answers.
ConnectThrow(r) ==
  /\ r.pc = "connecting"
  /\ req' = Resume(r)
  /\ out' = ErrorResponse("Error", "internal")
  /\ UNCHANGED <<transports, cleanupInterval, endpoints, server, now>>

\* Faulty variant: registration leaves the close callback it finds in place.
handshakeEndpointsKeepCallback(eps, e, sid) ==
  [eps EXCEPT ![e] = [st |-> "open", sid |-> sid, onclose |-> eps[e].onclose]]

\* The endpoint's handshake inside handleRequest of an initialize request: it
\* draws its session id and calls onsessioninitialized, which is setTransport
\* (the map entry, and the registry's close callback on the endpoint).
handshakeRegistry(t, e, sid) == setTransport(t, sid, e, now)
handshakeEndpoints(eps, e, sid) ==
  [eps EXCEPT ![e] = [st |-> "open", sid |-> sid, onclose |-> "registry"]]

\* Whether the suspended request is the initialize request of its endpoint.
IsInitiation(r) == r.sessionId = NoSid

\* The endpoint processing a DELETE: it closes itself, which runs its close
\* callback, or it answers without closing (a request it rejects).
terminateEndpoints(eps, e, closes) ==
  IF closes /\ eps[e].st = "open" THEN closeEndpoint(eps, e) ELSE eps
terminateRegistry(t, eps, e, closes) ==
  IF closes /\ eps[e].st = "open" THEN onclose(t, eps[e]) ELSE t

\* await transport.handleRequest(...) returns normally.
ForwardReturn(r) ==
  /\ r.pc = "forward"
  /\ \/ \* initialize request: the handshake registers the session
        /\ IsInitiation(r)
        /\ \E sid \in randomUUID(r.ep) :
             /\ transports' = handshakeRegistry(transports, r.ep, sid)
             /\ endpoints' = handshakeEndpoints(endpoints, r.ep, sid)
     \/ \* DELETE: the endpoint closes itself (or answers without closing), then
        \* the handler calls removeTransport(sessionId)
        /\ r.method = "DELETE"
        /\ \E closes \in BOOLEAN :
             /\ endpoints' = terminateEndpoints(endpoints, r.ep, closes)
             /\ transports' =
                  removeTransport(
                    terminateRegistry(transports, endpoints, r.ep, closes),
                    r.sessionId)
  /\ req' = Resume(r)
  /\ out' = ForwardResponse("return")
  /\ UNCHANGED <<cleanupInterval, server, now>>

\* transport.handleRequest throws before anything was written: the handler's
\* catch block answers through handleError.
ForwardThrowEarly(r) ==
  /\ r.pc = "forward"
  /\ req' = Resume(r)
  /\ out' = ForwardResponse("throwEarly")
  /\ UNCHANGED <<transports, cleanupInterval, endpoints, server, now>>

\* transport.handleRequest throws after the endpoint has sent the response
\* headers (for an initialize request the handshake is done by then): the catch
\* block calls handleError, whose res.status(500).json(...) throws in turn.
ForwardThrowLate(r) ==
  /\ r.pc = "forward"
  /\ \/ /\ IsInitiation(r)
        /\ \E sid \in randomUUID(r.ep) :
             /\ transports' = handshakeRegistry(transports, r.ep, sid)
             /\ endpoints' = handshakeEndpoints(endpoints, r.ep, sid)
     \/ \* DELETE: the handler's removeTransport is skipped
        /\ r.method = "DELETE"
        /\ \E closes \in BOOLEAN :
             /\ endpoints' = terminateEndpoints(endpoints, r.ep, closes)
             /\ transports' =
                  terminateRegistry(transports, endpoints, r.ep, closes)
  /\ req' = Resume(r)
  /\ out' = ForwardResponse("throwLate")
  /\ UNCHANGED <<cleanupInterval, server, now>>

\* An established endpoint signals closure on its own (peer or protocol error).
TransportClose(e) ==
  /\ endpoints[e].st = "open"
  /\ endpoints[e].sid # NoSid
  /\ endpoints' = closeEndpoint(endpoints, e)
  /\ transports' = onclose(transports, endpoints[e])
  /\ out' = NoResponse
  /\ UNCHANGED <<cleanupInterval, req, server, now>>

\* ------------------------------------------------- SessionTransportManager
\* The setInterval callback of startCleanupInterval: cleanup()
CleanupTimer ==
  /\ cleanupInterval
  /\ transports' = cleanup(transports, now)
  /\ out' = NoResponse
  /\ UNCHANGED <<cleanupInterval, endpoints, req, server, now>>

\* getActiveSessions: Array.from(this.transports.keys())
getActiveSessions(t) == DOMAIN t

\* The endpoints shutdown's loop visits: this.transports.values()
Registered(t) == {t[s].transport : s \in DOMAIN t}

\* Faulty variant: a loop without the try/catch, which the first failing close
\* ends.
shutdownEndpointsAbort(t, eps, failing) ==
  [e \in Eps |->
    IF e \in Registered(t) /\ \A f \in failing : e < f
      THEN [eps[e] EXCEPT !.st = "closed"]
      ELSE eps[e]]

\* shutdown, the loop: sessionTransport.transport.close() in a try/catch for
\* every entry.  failing is the set of endpoints whose close throws; such an
\* endpoint stays as it was, every other one is closed.
shutdownEndpoints(t, eps, failing) ==
  [e \in Eps |->
    IF e \in Registered(t) \ failing
      THEN [eps[e] EXCEPT !.st = "closed"]
      ELSE eps[e]]

\* shutdown, after the loop: this.transports.clear()
shutdownRegistry(t, failing) == NoSessions

\* -------------------------------------------------- HeroUiMcpApplication
\* start: app.listen
Start ==
  /\ server # "listening"
  /\ server' = "listening"
  /\ out' = NoResponse
  /\ UNCHANGED <<transports, cleanupInterval, endpoints, req, now>>

\* sessionManager.shutdown(): clearInterval, close every registered endpoint,
\* clear the map
shutdown(failing) ==
  /\ cleanupInterval' = FALSE
  /\ endpoints' = shutdownEndpoints(transports, endpoints, failing)
  /\ transports' = shutdownRegistry(transports, failing)

\* Faulty variant: stop without server.close.
closeServerNever(s) == s
\* stop: if (this.server) this.server.close(callback).  A listening server
\* stops listening at once; a server already closing or closed stays so.
closeServer(s) == IF s = "listening" THEN "closing" ELSE s

\* stop, up to the end of the promise executor: server.close(callback) when a
\* server exists, which stops the listening at once, then
\* sessionManager.shutdown().  The callback, which resolves stop's promise, runs
\* later (ServerClosed); without a server the promise is resolved here.
StopWith(failing) ==
  /\ server' = closeServer(server)
  /\ shutdown(failing)
  /\ out' = NoResponse
  /\ UNCHANGED <<req, now>>

Stop == \E failing \in SUBSET Registered(transports) : StopWith(failing)

\* The callback of server.close: the connections of the requests that were
\* being served have ended; stop's promise resolves.
ServerClosed ==
  /\ server = "closing"
  /\ req = EmptyBag
  /\ server' = "closed"
  /\ out' = NoResponse
  /\ UNCHANGED <<transports, cleanupInterval, endpoints, req, now>>

\* The clock advances.
Tick ==
  /\ now < MaxTime
  /\ now' = now + 1
  /\ out' = NoResponse
  /\ UNCHANGED <<transports, cleanupInterval, endpoints, req, server>>

\* The router and the registry, with the server already started: the startup of
\* the application and the process are left as they are.
Next ==
  \/ Start /\ UNCHANGED proc
  \/ Stop /\ UNCHANGED proc
  \/ ServerClosed /\ UNCHANGED proc
  \/ Tick /\ UNCHANGED proc
  \/ CleanupTimer /\ UNCHANGED proc
  \/ ResponseRead /\ UNCHANGED proc
  \/ PostRequest /\ UNCHANGED proc
  \/ GetRequest /\ UNCHANGED proc
  \/ DeleteRequest /\ UNCHANGED proc
  \/ \E r \in InFlight : ConnectDone(r) /\ UNCHANGED proc
  \/ \E r \in InFlight : ConnectThrow(r) /\ UNCHANGED proc
  \/ \E r \in InFlight : ForwardReturn(r) /\ UNCHANGED proc
  \/ \E r \in InFlight : ForwardThrowEarly(r) /\ UNCHANGED proc
  \/ \E r \in InFlight : ForwardThrowLate(r) /\ UNCHANGED proc
  \/ \E e \in Eps : TransportClose(e) /\ UNCHANGED proc

Spec == Init /\ [][Next]_vars

\* An awaited call of a suspended handler settles.
Settle ==
  \E r \in InFlight :
    \/ ConnectDone(r)
    \/ ConnectThrow(r)
    \/ ForwardReturn(r)
    \/ ForwardThrowEarly(r)
    \/ ForwardThrowLate(r)

\* The event loop keeps running: every awaited call of a handler settles, and
\* the callback of server.close runs once the requests being served have ended.
SpecLive ==
  /\ Spec
  /\ WF_vars(Settle /\ UNCHANGED proc)
  /\ WF_vars(ServerClosed /\ UNCHANGED proc)

\* ----------------------------------------------------------------- GitCache
\* The git commands updateRepository runs through executeGitCommand (fetch,
\* reset, sparse-checkout set) and those cloneRepository runs (clone,
\* sparse-checkout init, sparse-checkout set, checkout).
UpdateCommands == 3
CloneCommands == 4

\* Where initializeCache is suspended: at an await of pc, with `left` commands
\* of the operation still to run (the current one included) and the current
\* command at its attempt number `attempt`.
At(pc) == [pc |-> pc, left |-> 0, attempt |-> 0]
\* executeGitCommand(args, cwd): the default attempt = 1
FirstAttempt(left) == [pc |-> "exec", left |-> left, attempt |-> 1]

\* Faulty variant: only the attempt whose number equals the limit is the last.
isLastAttemptExact(attempt, gitMaxRetries) == attempt = gitMaxRetries
\* executeGitCommand: const isLastAttempt = attempt >= this.config.gitMaxRetries
isLastAttempt(attempt, gitMaxRetries) == attempt >= gitMaxRetries

\* Faulty variant: the mirror counts as initialised once an attempt was made.
cacheInitializedAfterAttempt(flag, success) == TRUE
\* HeroUiMcpApplication.initializeCache after its await:
\* if (result.success) this.cacheInitialized = true, else only a warning
cacheInitializedAfter(flag, success) == IF success THEN TRUE ELSE flag

\* Faulty variant: start opens the listening socket before it initialises the
\* mirror.
startServerEager(s, initialized) == "listening"
\* The server when start reaches its first suspension: with the mirror
\* initialised initializeCache returns at once and app.listen runs; otherwise
\* start is suspended at await this.gitCache.initializeCache() and the server
\* is as it was.
startServer(s, initialized) == IF initialized THEN "listening" ELSE s

\* A step that belongs to the startup: the router and the registry are idle.
Running == exitCode = NotExited

\* start(), up to its first suspension.
StartCall ==
  /\ Running
  /\ startPc = "idle"
  /\ sig = <<>>
  /\ server # "listening"
  /\ server' = startServer(server, cacheInitialized)
  /\ IF cacheInitialized
       THEN UNCHANGED <<startPc, git>>
       ELSE /\ startPc' = "cache"
            /\ git' = At(IF config.validateGitOnStartup THEN "validate" ELSE "status")
  /\ UNCHANGED <<config, cacheInitialized, result, sig, exitCode, cleanupInterval>>
  /\ UNCHANGED sess

\* initializeCache moves to another await.
GitTo(g) ==
  /\ git' = g
  /\ UNCHANGED <<config, cacheInitialized, startPc, result, sig, exitCode>>
  /\ UNCHANGED <<server, cleanupInterval>>
  /\ UNCHANGED sess

\* GitCache.initializeCache returns its result (the operation's own result, or
\* the failure its catch block builds); HeroUiMcpApplication.initializeCache
\* records it and start goes on to app.listen.
Returned(success) ==
  /\ git' = GitIdle
  /\ result' = IF success THEN "success" ELSE "failure"
  /\ cacheInitialized' = cacheInitializedAfter(cacheInitialized, success)
  /\ startPc' = "idle"
  /\ server' = "listening"
  /\ UNCHANGED <<config, sig, exitCode, cleanupInterval>>
  /\ UNCHANGED sess

\* validateGitAvailability: git --version answers, or GitCacheError is thrown
\* into initializeCache's catch block.
GitValidate ==
  /\ Running
  /\ git.pc = "validate"
  /\ \E ok \in BOOLEAN : IF ok THEN GitTo(At("status")) ELSE Returned(FALSE)

\* initializeCache: checkCacheStatus never throws; a valid cache is updated,
\* anything else is cloned.
GitStatus ==
  /\ Running
  /\ git.pc = "status"
  /\ \E isValid \in BOOLEAN : GitTo(At(IF isValid THEN "updateStatus" ELSE "mkdir"))

\* updateRepository: checkCacheStatus again; an invalid cache is cloned instead.
GitUpdateStatus ==
  /\ Running
  /\ git.pc = "updateStatus"
  /\ \E isValid \in BOOLEAN :
       GitTo(IF isValid THEN FirstAttempt(UpdateCommands) ELSE At("mkdir"))

\* cloneRepository: fs.mkdir, whose error the catch block turns into a failure.
GitMkdir ==
  /\ Running
  /\ git.pc = "mkdir"
  /\ \E ok \in BOOLEAN : IF ok THEN GitTo(At("cloneStatus")) ELSE Returned(FALSE)

\* cloneRepository: an existing invalid cache directory is removed first.
GitCloneStatus ==
  /\ Running
  /\ git.pc = "cloneStatus"
  /\ \E remove \in BOOLEAN :
       GitTo(IF remove THEN At("rm") ELSE FirstAttempt(CloneCommands))

\* cloneRepository: fs.rm
GitRm ==
  /\ Running
  /\ git.pc = "rm"
  /\ \E ok \in BOOLEAN :
       IF ok THEN GitTo(FirstAttempt(CloneCommands)) ELSE Returned(FALSE)

\* executeGitCommand: execFileAsync settles.  On success the operation goes on
\* to its next command, or returns its success after the last one.  On a
\* failure of the last attempt GitCacheError is thrown into the operation's
\* catch block, which returns a failure; otherwise the command sleeps.
GitExec ==
  /\ Running
  /\ git.pc = "exec"
  /\ \E ok \in BOOLEAN :
       IF ok
         THEN IF git.left = 1 THEN Returned(TRUE)
              ELSE GitTo(FirstAttempt(git.left - 1))
         ELSE IF isLastAttempt(git.attempt, config.gitMaxRetries) THEN Returned(FALSE)
              ELSE GitTo([git EXCEPT !.pc = "sleep"])

\* executeGitCommand: the sleep of gitRetryIntervalMs is over,
\* return this.executeGitCommand(args, cwd, attempt + 1)
GitWake ==
  /\ Running
  /\ git.pc = "sleep"
  /\ git.attempt < MaxAttempt
  /\ GitTo([git EXCEPT !.pc = "exec", !.attempt = @ + 1])

\* ------------------------------------------------------------------ index.ts
\* Faulty variant: the handler exits with 0 whatever stop did.
shutdownExitCodeZero(rejected) == 0
\* shutdown(signal): process.exit(1) in the catch block, process.exit(0) after
\* the try statement; process.exit does not return.
shutdownExitCode(rejected) == IF rejected THEN 1 ELSE 0

\* stop() called directly, as the tests do.
StopCall ==
  /\ Running
  /\ Stop
  /\ UNCHANGED proc

\* SIGINT or SIGTERM: the handler calls app.stop() and awaits it.  stop runs up
\* to the end of its promise executor; its promise is resolved at once when no
\* server is left to close, and the handler then exits before anything else
\* runs.
SignalStop ==
  /\ Running
  /\ Len(sig) < MaxSignals
  /\ Stop
  /\ IF server = "listening" \/ server = "closing"
       THEN /\ sig' = Append(sig, "pending")
            /\ UNCHANGED exitCode
       ELSE /\ sig' = Append(sig, "resolved")
            /\ exitCode' = shutdownExitCode(FALSE)
  /\ UNCHANGED <<config, cacheInitialized, startPc, git, result>>

\* SIGINT or SIGTERM, and the promise of app.stop() is rejected: index.ts
\* constructs McpApplication, whose stop is not the one above, and catches
\* what it throws.
SignalStopRejected ==
  /\ Running
  /\ Len(sig) < MaxSignals
  /\ sig' = Append(sig, "rejected")
  /\ exitCode' = shutdownExitCode(TRUE)
  /\ UNCHANGED <<config, cacheInitialized, startPc, git, result>>
  /\ UNCHANGED <<server, cleanupInterval>>
  /\ UNCHANGED sess

\* The callback of server.close resolves every pending promise of stop; the
\* first suspended signal handler, if there is one, exits.
Closed ==
  /\ Running
  /\ ServerClosed
  /\ sig' = [i \in DOMAIN sig |-> "resolved"]
  /\ exitCode' = IF sig # <<>> THEN shutdownExitCode(FALSE) ELSE exitCode
  /\ UNCHANGED <<config, cacheInitialized, startPc, git, result>>

\* The startup of the application and its shutdown by signal, for every cache
\* configuration; no request arrives.
InitStartup == \E c \in Configs : Constructed(c)

NextStartup ==
  \/ StartCall
  \/ GitValidate
  \/ GitStatus
  \/ GitUpdateStatus
  \/ GitMkdir
  \/ GitCloneStatus
  \/ GitRm
  \/ GitExec
  \/ GitWake
  \/ StopCall
  \/ SignalStop
  \/ SignalStopRejected
  \/ Closed

SpecStartup == InitStartup /\ [][NextStartup]_vars

\* ------------------------------------------------------------------ claims
Is4xx(resp) == resp.status >= 400 /\ resp.status <= 499
SessionNotFound == ErrorResponse("Error", "Session not found")

\* C1: a request (POST, GET or DELETE) that carries a session id, non-empty
\* after trimming, which is not a key of the registry is answered with the
\* session-not-found error in the step that receives it; no endpoint is made, no
\* handler is left suspended and the registry is unchanged, also when the body
\* is an initialize message.  (Every step is either such an answer that changes
\* nothing, or not the handling of such a request.)
C1_LookupConsistency ==
  [][\/ server # "listening"
     \/ /\ out' = SessionNotFound
        /\ UNCHANGED <<transports, endpoints, req>>
     \/ \A h \in {g \in Headers : hasSessionId(g) /\ g.val \notin DOMAIN transports} :
          /\ \A isInit \in BOOLEAN : ~handlePost(h, isInit)
          /\ \A m \in {"GET", "DELETE"} : ~handleSession(m, h)]_vars

\* A stale id was refused: its endpoint is closed, the answer is session-not-found
\* and another session is still registered.
C1_Witness ==
  /\ out = SessionNotFound
  /\ DOMAIN transports # {}
  /\ \E e \in Eps : endpoints[e].st = "closed" /\ endpoints[e].sid # NoSid

\* C2: a malformed request (a POST with no session id, absent or blank, and a
\* body that is not initialize; a GET or DELETE with no session id) makes no
\* endpoint, leaves no handler suspended and leaves the registry's keys and
\* timestamps as they were.  (Every step either changes none of them, or is not
\* the handling of a malformed request.)
C2_MalformedFrame ==
  [][\/ server # "listening"
     \/ UNCHANGED <<transports, endpoints, req>>
     \/ \A h \in {g \in Headers : ~hasSessionId(g)} :
          /\ ~handlePost(h, FALSE)
          /\ \A m \in {"GET", "DELETE"} : ~handleSession(m, h)]_vars

\* A malformed POST was answered while a session was registered.
C2_Witness ==
  /\ out = ErrorResponse("SessionError", "Bad Request: No valid session ID")
  /\ DOMAIN transports # {}

\* C3: every handshake of an initialize request adds exactly one key that was
\* not in the registry and leaves every other entry as it was; each key maps to
\* the endpoint that drew it, and no two endpoints hold the same id.
C3_Uniqueness ==
  /\ [](/\ \A s \in DOMAIN transports : endpoints[transports[s].transport].sid = s
        /\ \A e, f \in Eps :
             (e # f /\ endpoints[e].sid # NoSid) => endpoints[e].sid # endpoints[f].sid)
  /\ [][\A r \in InFlight :
          (IsInitiation(r) /\ (ForwardReturn(r) \/ ForwardThrowLate(r))) =>
            /\ endpoints'[r.ep].sid \notin DOMAIN transports
            /\ DOMAIN transports' = DOMAIN transports \cup {endpoints'[r.ep].sid}
            /\ transports'[endpoints'[r.ep].sid].transport = r.ep
            /\ \A s \in DOMAIN transports : transports'[s] = transports[s]]_vars

\* Two initiations interleaved: every endpoint is registered under its own id,
\* and the one constructed last completed its handshake first.
C3_Witness ==
  /\ Cardinality(DOMAIN transports) = MaxIds
  /\ \E s, u \in DOMAIN transports :
       /\ transports[s].transport < transports[u].transport
       /\ transports[s].lastActivity > transports[u].lastActivity

\* C4 (as claimed): an endpoint that was registered and is still open is still
\* in the registry.
C4_ClosedBeforeRemoved ==
  \A e \in Eps :
    (endpoints[e].sid # NoSid /\ endpoints[e].st = "open") =>
      /\ endpoints[e].sid \in DOMAIN transports
      /\ transports[endpoints[e].sid].transport = e

\* C5 (as claimed): once shutdown has run and the application has not been
\* started again, the registry is empty.
C5_NoSessionAfterShutdown ==
  (~cleanupInterval /\ server # "listening") => DOMAIN transports = {}

\* C6: an endpoint that has not completed its handshake (it reports no session
\* id) is the value of no registry entry.
C6_RegisteredAfterHandshake ==
  \A e \in Eps :
    endpoints[e].sid = NoSid =>
      \A s \in DOMAIN transports : transports[s].transport # e

\* An endpoint whose initialize request has ended never completed its handshake,
\* and a session of another endpoint is registered.
C6_Witness ==
  /\ DOMAIN transports # {}
  /\ \E e \in Eps :
       /\ endpoints[e].st = "open"
       /\ endpoints[e].sid = NoSid
       /\ \A r \in InFlight : r.ep # e

\* C7: every key of the registry is an id the generator produced.
C7_ServerGeneratedIds == DOMAIN transports \subseteq generated

\* A client named an id nobody was issued (it was refused) while a session
\* issued by the server is registered and an endpoint is yet to be made.
C7_Witness ==
  /\ out = SessionNotFound
  /\ DOMAIN transports # {}
  /\ \E e \in Eps : endpoints[e].st = "unused"

\* C8 (as claimed): a request naming an id absent from the registry gets a 4xx
\* response whose code differs from the code of the malformed-request error.
C8_NotFoundIsClientError ==
  [][\A h \in Headers :
       (hasSessionId(h) /\ h.val \notin DOMAIN transports) =>
         /\ \A isInit \in BOOLEAN :
              handlePost(h, isInit) =>
                (Is4xx(out') /\ out'.code # handleErrorCode("SessionError"))
         /\ \A m \in {"GET", "DELETE"} :
              handleSession(m, h) =>
                (Is4xx(out') /\ out'.code # handleErrorCode("SessionError"))]_vars

\* C9 (as claimed): a POST without session id and without initialize body, a
\* GET without session id and a DELETE without session id each get a 4xx answer.
C9_MalformedIsClientError ==
  [][\A h \in Headers :
       /\ (~hasSessionId(h) /\ handlePost(h, FALSE)) => Is4xx(out')
       /\ \A m \in {"GET", "DELETE"} :
            (~Truthy(h) /\ handleSession(m, h)) => Is4xx(out')]_vars

\* C10 (as claimed): every response a request ends with is one well-formed
\* structured response, and no exception left the handler.
C10_AlwaysOneResponse ==
  out # NoResponse => (out.structured /\ ~out.escaped)

\* C11: when shutdown returns, getSessionCount is 0 and getActiveSessions is
\* empty, however many sessions were live and whichever closes threw; every
\* registered endpoint whose close did not throw has been closed.
C11_ShutdownDrainsAll ==
  [][\A failing \in SUBSET Eps :
       (failing \subseteq Registered(transports) /\ StopWith(failing)) =>
         /\ getSessionCount(transports') = 0
         /\ getActiveSessions(transports') = {}
         /\ \A e \in Registered(transports) \ failing :
              endpoints'[e].st = "closed"]_vars

\* Shutdown has run with two live sessions: the close of one threw, the other
\* endpoint was closed, and the registry is empty.
C11_Witness ==
  /\ ~cleanupInterval
  /\ server = "closed"
  /\ getSessionCount(transports) = 0
  /\ \E e, f \in Eps :
       /\ endpoints[e].st = "closed" /\ endpoints[e].onclose = "registry"
       /\ endpoints[f].st = "open" /\ endpoints[f].onclose = "registry"
       /\ now = 0

\* C12: a cleanup sweep at time now removes exactly the sessions with
\* now - lastActivity > sessionTimeoutMs; every other session, one idle for
\* exactly the timeout included, keeps its entry as it was.
C12_EvictionCorrectness ==
  [][CleanupTimer =>
       /\ DOMAIN transports' \subseteq DOMAIN transports
       /\ \A s \in DOMAIN transports :
            IF now - transports[s].lastActivity >= SessionTimeoutMs + 1
              THEN s \notin DOMAIN transports'
              ELSE s \in DOMAIN transports' /\ transports'[s] = transports[s]]_vars

\* A sweep has run: a session idle for exactly the timeout is still registered
\* while the timer is armed, and another, established and still open, is gone.
C12_Witness ==
  /\ cleanupInterval
  /\ \E s \in DOMAIN transports : now - transports[s].lastActivity = SessionTimeoutMs
  /\ \E e \in Eps :
       /\ endpoints[e].st = "open"
       /\ endpoints[e].onclose = "registry"
       /\ endpoints[e].sid \notin DOMAIN transports

\* C13: every request whose lookup hits an existing session leaves that
\* session's lastActivity strictly greater than it was before the lookup.
C13_ActivityStrictlyIncreases ==
  [][\A h \in Headers :
       (/\ h.present
        /\ h.val \in DOMAIN transports
        /\ \/ \E isInit \in BOOLEAN : handlePost(h, isInit)
           \/ \E m \in {"GET", "DELETE"} : handleSession(m, h)) =>
         /\ h.val \in DOMAIN transports'
         /\ transports'[h.val].lastActivity > transports[h.val].lastActivity]_vars

\* C14: removeTransport of an id that is not registered changes nothing, a
\* second removeTransport of the same id changes nothing more, and the handler's
\* removal commutes with the removal done by an endpoint's close callback; when
\* a DELETE returns after its endpoint closed, the handler's removal leaves the
\* registry as the close callback left it.
RequestIds == {h.val : h \in {g \in Headers : g.present}}
C14_IdempotentRemoval ==
  /\ [](\A sid \in RequestIds :
          /\ sid \notin DOMAIN transports =>
               removeTransport(transports, sid) = transports
          /\ removeTransport(removeTransport(transports, sid), sid) =
               removeTransport(transports, sid)
          /\ \A e \in Eps :
               removeTransport(onclose(transports, endpoints[e]), sid) =
                 onclose(removeTransport(transports, sid), endpoints[e]))
  /\ [][\A r \in InFlight :
          (/\ r.method = "DELETE"
           /\ ForwardReturn(r)
           /\ endpoints[r.ep].st = "open"
           /\ endpoints'[r.ep].st = "closed") =>
            transports' = onclose(transports, endpoints[r.ep])]_vars

\* A DELETE has returned after its endpoint closed, with another session still
\* registered: the id was removed by the close callback and by the handler.
C14_Witness ==
  /\ out = TransportResponse
  /\ DOMAIN transports # {}
  /\ \E e \in Eps :
       /\ endpoints[e].st = "closed"
       /\ endpoints[e].sid # NoSid
       /\ endpoints[e].sid \notin DOMAIN transports

\* The id endpoint e drew is no longer (or not) a key of the registry.
Gone(e) == endpoints[e].sid # NoSid /\ endpoints[e].sid \notin DOMAIN transports

\* C15: when the DELETE handler of an existing session returns from the
\* endpoint's handleRequest, the registry does not contain the session's id; an
\* id that has left the registry never returns to it, and every request that
\* carries it is answered with session-not-found and changes nothing.
C15_TerminateRemoves ==
  /\ [][\A r \in InFlight :
          (r.method = "DELETE" /\ ForwardReturn(r)) =>
            r.sessionId \notin DOMAIN transports']_vars
  /\ [][\A e \in Eps : Gone(e) => Gone(e)']_vars
  /\ [][\A e \in Eps :
          \/ ~Gone(e)
          \/ /\ out' = SessionNotFound
             /\ UNCHANGED <<transports, endpoints, req>>
          \/ /\ \A isInit \in BOOLEAN : ~handlePost(Hdr(endpoints[e].sid), isInit)
             /\ \A m \in {"GET", "DELETE"} : ~handleSession(m, Hdr(endpoints[e].sid))]_vars

\* Before the clock has moved and with the timer armed, a session was ended by
\* a DELETE that its endpoint answered without closing, and a later request
\* carrying its id has been answered with session-not-found.
C15_Witness ==
  /\ now = 0
  /\ cleanupInterval
  /\ out = SessionNotFound
  /\ \E e \in Eps : endpoints[e].st = "open" /\ Gone(e)

\* C16: a session's lastActivity moves only when a request carrying its id is
\* looked up; a cleanup sweep removes every session whose lastActivity lies more
\* than sessionTimeoutMs behind the clock; and a POST that carries the id of a
\* session no longer registered is answered with session-not-found, registers
\* nothing and makes no endpoint, whatever its body.
C16_IdleEviction ==
  /\ [][\A s \in DOMAIN transports \cap DOMAIN transports' :
          transports'[s].lastActivity # transports[s].lastActivity =>
            \/ \E isInit \in BOOLEAN : handlePost(Hdr(s), isInit)
            \/ \E m \in {"GET", "DELETE"} : handleSession(m, Hdr(s))]_vars
  /\ [][CleanupTimer =>
          \A s \in DOMAIN transports :
            now - transports[s].lastActivity > SessionTimeoutMs =>
              s \notin DOMAIN transports']_vars
  /\ [][\A e \in Eps, isInit \in BOOLEAN :
          (Gone(e) /\ handlePost(Hdr(endpoints[e].sid), isInit)) =>
            /\ out' = SessionNotFound
            /\ DOMAIN transports' = DOMAIN transports
            /\ endpoints' = endpoints]_vars

\* Two sessions were left idle past the timeout and swept together while their
\* endpoints stayed open, and a later request was answered session-not-found.
C16_Witness ==
  /\ cleanupInterval
  /\ now > SessionTimeoutMs
  /\ out = SessionNotFound
  /\ DOMAIN transports = {}
  /\ \A e \in Eps : endpoints[e].st = "open" /\ Gone(e)

\* stop's promise has resolved: close's callback ran, or there was no server.
StopResolved == server = "closed" \/ (server = "none" /\ ~cleanupInterval)

\* C17: stop's promise resolves only when the server has stopped listening and
\* the registry's shutdown is complete: in every state in which it has resolved
\* the server is not listening, the cleanup timer is cleared and the registry
\* holds no session.
C17_GracefulStopOrdering ==
  StopResolved =>
    /\ server # "listening"
    /\ ~cleanupInterval
    /\ getSessionCount(transports) = 0

\* C18: in every state in which the application is started, and so accepts
\* requests and can hold sessions, the periodic cleanup timer is armed.
C18_ReaperArmedWhileStarted ==
  server = "listening" => cleanupInterval

\* C19: every step in which an endpoint closes, whoever caused it (a DELETE, the
\* endpoint itself, shutdown), leaves that endpoint's id out of the registry; a
\* close outside shutdown removes that one entry only; and in every state no
\* registry entry maps to a closed endpoint.
C19_NoEntryOutlivesEndpoint ==
  /\ [](\A s \in DOMAIN transports :
          endpoints[transports[s].transport].st # "closed")
  /\ [][\A e \in Eps :
          (endpoints[e].st = "open" /\ endpoints'[e].st = "closed") =>
            /\ endpoints'[e].sid \notin DOMAIN transports'
            /\ ~Stop =>
                 \A s \in DOMAIN transports \ {endpoints[e].sid} :
                   s \in DOMAIN transports' /\ transports'[s] = transports[s]]_vars

\* An established endpoint closed on its own while the server was running: its
\* id left the registry with it and another session is still registered.
C19_Witness ==
  /\ cleanupInterval
  /\ out = NoResponse
  /\ req = EmptyBag
  /\ DOMAIN transports # {}
  /\ \E e \in Eps : endpoints[e].st = "closed" /\ Gone(e)

\* C20: for POST, GET and DELETE alike, a header that is empty or blank is
\* treated as an absent one: the step that handles the request is the step that
\* handles the same request without the header; and a header that is non-empty
\* after trimming makes the request a continuation: it is answered neither as a
\* request without an id nor by making an endpoint.
C20_PresenceAfterTrimming ==
  [][\A h \in Headers :
       IF hasSessionId(h)
         THEN (\/ \E isInit \in BOOLEAN : handlePost(h, isInit)
               \/ \E m \in {"GET", "DELETE"} : handleSession(m, h)) =>
                /\ endpoints' = endpoints
                /\ out' # ErrorResponse("Error", "Missing session ID")
                /\ out' # ErrorResponse("SessionError", "Bad Request: No valid session ID")
         ELSE /\ \A isInit \in BOOLEAN :
                   handlePost(h, isInit) => handlePost(Absent, isInit)
              /\ \A m \in {"GET", "DELETE"} :
                   handleSession(m, h) => handleSession(m, Absent)]_vars

\* A response written by handleError for an internal failure.
IsServerError(resp) == resp.status >= 500 /\ resp.structured /\ ~resp.escaped

\* C21: when the endpoint raises while it processes a forwarded request of an
\* existing session, the client is answered with a server error and the handler
\* does not remove the session: after a POST or GET the entry is as the lookup
\* left it, and after a DELETE the registry is as it was, unless the endpoint
\* closed itself, and then it is as the endpoint's close callback left it.
C21_DispatchFailureKeepsSession ==
  [][/\ \A r \in InFlight :
          (r.method = "DELETE" /\ (ForwardThrowEarly(r) \/ ForwardThrowLate(r))) =>
            /\ IsServerError(out')
            /\ transports' =
                 IF endpoints[r.ep].st = "open" /\ endpoints'[r.ep].st = "closed"
                   THEN onclose(transports, endpoints[r.ep])
                   ELSE transports
     /\ \A h \in Headers :
          (/\ h.present
           /\ h.val \in DOMAIN transports
           /\ out' # TransportResponse
           /\ \/ \E isInit \in BOOLEAN : handlePost(h, isInit)
              \/ handleSession("GET", h)) =>
            /\ IsServerError(out')
            /\ transports' = getTransportTouch(transports, h.val, now)]_vars

\* The handlers suspended in this step.
Suspending == {r \in BagToSet(req') : CopiesIn(r, req') > CopiesIn(r, req)}

\* C26: a continuation is forwarded in the step of its lookup: the endpoint a
\* request is forwarded into is, when the forwarding starts, the endpoint the
\* registry holds under the request's id; and a request whose id is absent
\* leaves it absent, so a second request carrying that id finds it absent too.
\* The last two parts are stated by contraposition: a step that answers with
\* the endpoint's response although the id is not registered to an open
\* endpoint, or that registers an id that was absent, is not the arrival of a
\* request carrying that id.
C26_LookupAndForwardAtomic ==
  [][/\ req' # req =>
          \A r \in Suspending :
            (r.pc = "forward" /\ ~IsInitiation(r)) =>
              /\ r.sessionId \in DOMAIN transports
              /\ r.sessionId \in DOMAIN transports'
              /\ transports'[r.sessionId].transport = r.ep
     /\ out' \in {ForwardResponse(o) : o \in Outcomes} =>
          \A h \in Headers :
            (/\ h.present
             /\ ~(/\ h.val \in DOMAIN transports
                  /\ h.val \in DOMAIN transports'
                  /\ endpoints'[transports'[h.val].transport].st = "open")) =>
              ~(\/ \E isInit \in BOOLEAN : handlePost(h, isInit)
                \/ handleSession("GET", h))
     /\ DOMAIN transports' # DOMAIN transports =>
          \A h \in Headers :
            (/\ h.present
             /\ h.val \notin DOMAIN transports
             /\ h.val \in DOMAIN transports') =>
              ~(\/ \E isInit \in BOOLEAN : handlePost(h, isInit)
                \/ \E m \in {"GET", "DELETE"} : handleSession(m, h))]_vars

\* A DELETE is suspended inside the endpoint of a registered session while a
\* second session is registered.
C26_Witness ==
  /\ \E r \in InFlight :
       /\ r.pc = "forward"
       /\ r.method = "DELETE"
       /\ r.sessionId \in DOMAIN transports
  /\ Cardinality(DOMAIN transports) = 2

\* C27: the sweep evicts after a suspension point: when the step that marks the
\* idle sessions ends, the marked sessions are still registered (their closes
\* are awaited and their entries removed in later steps, between which request
\* handlers run).
C27_SweepSuspendsBeforeEvict ==
  [][CleanupTimer =>
       \A s \in expiredSessions(transports, now) : s \in DOMAIN transports']_vars

\* C29: a request that looks up a registered session already idle for longer
\* than sessionTimeoutMs is forwarded like any other and sets the session's
\* lastActivity to the clock, so a sweep at that clock reading keeps it; and a
\* sweep removes a session only when its lastActivity, the reading of its last
\* lookup, lies more than sessionTimeoutMs back.
C29_ExpiryOnlyAtSweep ==
  [][/\ \A h \in Headers :
          (/\ h.present
           /\ h.val \in DOMAIN transports
           /\ now - transports[h.val].lastActivity > SessionTimeoutMs
           /\ \/ \E isInit \in BOOLEAN : handlePost(h, isInit)
              \/ \E m \in {"GET", "DELETE"} : handleSession(m, h)) =>
            /\ h.val \in DOMAIN transports'
            /\ transports'[h.val].lastActivity = now
            /\ h.val \notin expiredSessions(transports', now')
            /\ out' # SessionNotFound
            /\ \/ out' \in {ForwardResponse(o) : o \in Outcomes}
               \/ \E r \in Suspending : r.sessionId = h.val
     /\ CleanupTimer =>
          \A s \in DOMAIN transports \ DOMAIN transports' :
            now - transports[s].lastActivity > SessionTimeoutMs]_vars

\* With the timer armed and the clock past the timeout, a session has just been
\* looked up and forwarded into, and holds the current clock reading.
C29_Witness ==
  /\ cleanupInterval
  /\ now = MaxTime
  /\ out = TransportResponse
  /\ \E s \in DOMAIN transports : transports[s].lastActivity = now

\* C30: from its registration on, an endpoint carries the registry's close
\* callback and never again the one createNewTransport installed: every endpoint
\* that has drawn an id, and every registered one, has the registry's callback,
\* the router's callback sits on endpoints without an id only, and when an
\* established endpoint closes, the registry changes by the removal of that id
\* and nothing else.
C30_RegistrationReplacesCallback ==
  /\ [](/\ \A e \in Eps :
             /\ endpoints[e].sid # NoSid => endpoints[e].onclose = "registry"
             /\ endpoints[e].onclose = "router" => endpoints[e].sid = NoSid
        /\ \A s \in DOMAIN transports :
             endpoints[transports[s].transport].onclose = "registry")
  /\ [][\A e \in Eps :
          /\ endpoints[e].onclose = "registry" => endpoints'[e].onclose = "registry"
          /\ TransportClose(e) =>
               transports' = removeTransport(transports, endpoints[e].sid)]_vars

\* An established endpoint has closed under the registry's callback while
\* another endpoint, not yet registered, still carries the router's.
C30_Witness ==
  /\ \E e \in Eps :
       /\ endpoints[e].st = "closed"
       /\ endpoints[e].onclose = "registry"
       /\ Gone(e)
  /\ \E f \in Eps : endpoints[f].st = "open" /\ endpoints[f].onclose = "router"


\* C22: start does not open the listening socket until the initialisation of
\* the mirror has finished, with either result.  The server, on which every
\* route handler's acceptance of a request depends, is never listening while
\* GitCache.initializeCache is in progress, and it begins to listen only in a
\* step in which that initialisation returns, or when the mirror had already
\* been initialised by an earlier start.
C22_ListenAfterMirrorInit ==
  [][/\ git'.pc # "idle" => server' # "listening"
     /\ (server # "listening" /\ server' = "listening") =>
          \/ cacheInitialized
          \/ git.pc # "idle" /\ git'.pc = "idle" /\ result' # NoResult]_vars

\* The mirror was initialised with success and the server listens.
C22_Witness ==
  /\ server = "listening"
  /\ result = "success"
  /\ cacheInitialized


\* C23: a failed initialisation of the mirror is not fatal.  In the step in
\* which GitCache.initializeCache returns a failure, start goes on to listen
\* and is no longer suspended, and the mirror stays recorded as not
\* initialised; and a start skips the initialisation (it listens without
\* running GitCache.initializeCache) only when the mirror is recorded as
\* initialised, so a start after a failure initialises again.
C23_MirrorFailureNotFatal ==
  [][/\ (git.pc # "idle" /\ git'.pc = "idle" /\ result' = "failure") =>
          /\ server' = "listening"
          /\ startPc' = "idle"
          /\ ~cacheInitialized'
     /\ (git.pc = "idle" /\ git'.pc = "idle" /\ server # "listening" /\ server' = "listening") =>
          cacheInitialized]_vars

\* After an initialisation that failed, a later start initialises again.
C23_Witness ==
  /\ result = "failure"
  /\ ~cacheInitialized
  /\ startPc = "cache"
  /\ git.pc # "idle"


MaxTries == IF config.gitMaxRetries < 1 THEN 1 ELSE config.gitMaxRetries
\* The awaits of initializeCache in the order it can pass them, as a number
\* that bounds the steps it has left: two steps for every attempt of every
\* command still to run, then the checks before the first command.
Rank(g) ==
  CASE g.pc = "idle" -> 0
    [] g.pc = "sleep" -> (g.left - 1) * 2 * MaxTries + 2 * (MaxTries - g.attempt)
    [] g.pc = "exec" -> (g.left - 1) * 2 * MaxTries + 2 * (MaxTries - g.attempt) + 1
    [] g.pc = "rm" -> CloneCommands * 2 * MaxTries
    [] g.pc = "cloneStatus" -> CloneCommands * 2 * MaxTries + 1
    [] g.pc = "mkdir" -> CloneCommands * 2 * MaxTries + 2
    [] g.pc = "updateStatus" -> CloneCommands * 2 * MaxTries + 3
    [] g.pc = "status" -> CloneCommands * 2 * MaxTries + 4
    [] g.pc = "validate" -> CloneCommands * 2 * MaxTries + 5
InProgress == git.pc # "idle" /\ Running
GitStep ==
  GitValidate \/ GitStatus \/ GitUpdateStatus \/ GitMkdir \/ GitCloneStatus
    \/ GitRm \/ GitExec \/ GitWake

\* C28: the git operations of the mirror are bounded.  A command is at an
\* attempt between 1 and gitMaxRetries (1 when gitMaxRetries is less), and it
\* sleeps only before an attempt that is still allowed; an attempt is followed
\* by another attempt of the same command only through the sleep, the command
\* after a successful attempt starts at attempt 1, and after the last attempt
\* the command does not sleep again.  While initializeCache is in progress it
\* can take a step, every step brings it strictly closer to its end, and it
\* ends with a success or a failure result.
C28_GitOperationsBounded ==
  /\ [](InProgress => ENABLED GitStep)
  /\ [][/\ git'.pc \in {"exec", "sleep"} =>
             /\ 1 <= git'.attempt /\ git'.attempt <= MaxTries
             /\ git'.pc = "sleep" => git'.attempt < config.gitMaxRetries
        /\ (git.pc \in {"exec", "sleep"} /\ git'.attempt = git.attempt + 1) =>
             /\ git.pc = "sleep" /\ git'.pc = "exec"
             /\ git'.left = git.left
        /\ (git.pc = "exec" /\ git'.pc = "exec" /\ git' # git) =>
             /\ git'.left = git.left - 1
             /\ git'.attempt = 1
        /\ (git.pc = "exec" /\ git.attempt >= MaxTries) => git'.pc # "sleep"
        /\ (git.pc # "idle" /\ git' # git) => Rank(git') < Rank(git)
        /\ (git.pc # "idle" /\ git'.pc = "idle") =>
             result' \in {"success", "failure"}]_vars

\* The last command of an operation has failed and slept until it is at the
\* last attempt the configuration allows.
C28_Witness ==
  /\ config.gitMaxRetries = MaxRetries
  /\ git.pc = "exec"
  /\ git.attempt = MaxRetries
  /\ git.left = 1


====
